---------------------------- MODULE Spec2Model ----------------------------
(***************************************************************************)
(* Model of the dual-backend database layer (db.py) and of the background  *)
(* health monitor (db_monitor.py).                                         *)
(*                                                                         *)
(* Text that the code inspects character by character (flag values, host   *)
(* names, query templates) is a sequence of one-character strings.  A      *)
(* connection descriptor is the record of the parts urlparse splits it     *)
(* into; the empty string is the record EmptyUrl.                          *)
(***************************************************************************)
EXTENDS Integers, Sequences, FiniteSets, TLC

VARIABLES
    env,             \* os.environ as read by db.py and db_monitor.py
    db,              \* module globals of db.py, computed once at import
    stores,          \* the schema held by the SQLite file and by each PostgreSQL database
    last,            \* outcome of the most recent call into db.py
    hist,            \* outcomes of the ensure_schema calls made so far
    LAST_DB_STATUS,  \* db_monitor.LAST_DB_STATUS: 0 is None, i > 0 refers to heap[i]
    heap,            \* the dict objects allocated by the monitor, by address
    threads,         \* the db_monitor threads started so far: position and locals
    starts,          \* number of calls of start_db_monitor so far
    clock,           \* wall clock, in ticks
    observed         \* what a reader of LAST_DB_STATUS saw last: <<>> before any read

vars == <<env, db, stores, last, hist, LAST_DB_STATUS, heap, threads, starts, clock, observed>>

dbVars == <<env, db, stores, last, hist>>
monVars == <<LAST_DB_STATUS, heap, threads, starts, clock, observed>>

---------------------------------------------------------------------------
(* Bounds of the model *)

MaxEnsureCalls == 2
MaxStarts == 2
MaxClock == 2

---------------------------------------------------------------------------
(* Text *)

Upper == <<"A","B","C","D","E","F","G","H","I","J","K","L","M",
           "N","O","P","Q","R","S","T","U","V","W","X","Y","Z">>
LowerAlpha == <<"a","b","c","d","e","f","g","h","i","j","k","l","m",
                "n","o","p","q","r","s","t","u","v","w","x","y","z">>

LowerChar(c) ==
    IF \E i \in 1..26 : Upper[i] = c
    THEN LowerAlpha[CHOOSE i \in 1..26 : Upper[i] = c]
    ELSE c

\* str.lower()
lower(s) == [i \in 1..Len(s) |-> LowerChar(s[i])]

Whitespace == {" ", "\t", "\n"}

RECURSIVE lstrip(_)
lstrip(s) ==
    IF s # <<>> /\ Head(s) \in Whitespace THEN lstrip(Tail(s)) ELSE s

RECURSIVE rstrip(_)
rstrip(s) ==
    IF s # <<>> /\ s[Len(s)] \in Whitespace THEN rstrip(SubSeq(s, 1, Len(s) - 1)) ELSE s

\* str.strip()
strip(s) == rstrip(lstrip(s))

S_1 == <<"1">>
S_0 == <<"0">>
S_true == <<"t","r","u","e">>
S_yes == <<"y","e","s">>
S_on == <<"o","n">>

\* the tuple ("1", "true", "yes", "on") of db.py and db_monitor.py
TruthyWords == {S_1, S_true, S_yes, S_on}

\* An environment variable: unset, or set to a text
Unset == [present |-> FALSE, value |-> <<>>]
SetTo(s) == [present |-> TRUE, value |-> s]

\* os.getenv(name, default)
getenv(var, default) == IF var.present THEN var.value ELSE default

---------------------------------------------------------------------------
(* Connection descriptors *)

H_localhost == <<"l","o","c","a","l","h","o","s","t">>
H_LOCALHOST == <<"L","O","C","A","L","H","O","S","T">>
H_loopback4 == <<"1","2","7",".","0",".","0",".","1">>
H_loopback6 == <<":",":","1">>
H_example == <<"e","x","a","m","p","l","e",".","c","o","m">>

EmptyUrl == [scheme |-> "", user |-> "", password |-> "", host |-> <<>>,
             port |-> "", path |-> "", query |-> <<>>]

Url(scheme, user, host, path, query) ==
    [scheme |-> scheme, user |-> user, password |-> "p", host |-> host,
     port |-> "", path |-> path, query |-> query]

\* url.startswith("postgres://")
StartsWithPostgres(url) == url.scheme = "postgres"

\* url.startswith("postgresql://")
StartsWithPostgresql(url) == url.scheme = "postgresql"

\* bool(url and (url.startswith("postgres://") or url.startswith("postgresql://")))
IsPgUrl(url) ==
    url # EmptyUrl /\ (StartsWithPostgres(url) \/ StartsWithPostgresql(url))

\* dict(parse_qsl(query)) as the list of its items: parse_qsl drops the
\* parameters whose value is blank, dict keeps one entry per key, at the
\* place of the key's first occurrence and with its last value.
RECURSIVE DictItems(_, _)
DictItems(pairs, acc) ==
    IF pairs = <<>> THEN acc
    ELSE LET kv == Head(pairs)
             at == {i \in 1..Len(acc) : acc[i][1] = kv[1]}
         IN  IF kv[2] = "" THEN DictItems(Tail(pairs), acc)
             ELSE IF at # {}
                  THEN DictItems(Tail(pairs),
                                 [acc EXCEPT ![CHOOSE i \in at : TRUE] = kv])
                  ELSE DictItems(Tail(pairs), Append(acc, kv))

HasKey(items, k) == \E i \in 1..Len(items) : items[i][1] = k

\* Mutant: the host is compared as written in the descriptor
hostname_as_written(parsed) == parsed.host

\* parsed.hostname: the host in lower case, None ("") when there is none
hostname(parsed) == lower(parsed.host)

LoopbackHosts == {H_localhost, H_loopback4, H_loopback6}

\* Mutant: the legacy alias is left in place
normalize_pg_url_keeping_alias(url0) ==
    LET query_params == DictItems(url0.query, <<>>)
        new_params ==
            IF ~HasKey(query_params, "sslmode")
            THEN IF hostname(url0) \in LoopbackHosts
                 THEN Append(query_params, <<"sslmode", "disable">>)
                 ELSE Append(query_params, <<"sslmode", "require">>)
            ELSE query_params
    IN  [url0 EXCEPT !.query = new_params]

normalize_pg_url(url0) ==
    LET url == IF StartsWithPostgres(url0)
               THEN [url0 EXCEPT !.scheme = "postgresql"] ELSE url0
        query_params == DictItems(url.query, <<>>)
        new_params ==
            IF ~HasKey(query_params, "sslmode")
            THEN IF hostname(url) \in LoopbackHosts
                 THEN Append(query_params, <<"sslmode", "disable">>)
                 ELSE Append(query_params, <<"sslmode", "require">>)
            ELSE query_params
    IN  [url EXCEPT !.query = new_params]

---------------------------------------------------------------------------
(* db.py: module globals *)

\* value.strip().lower() in ("1", "true", "yes", "on")
is_truthy(value) == lower(strip(value)) \in TruthyWords

\* Mutant: the override flag is not consulted
RuntimeDbUrlIgnoringFlag(use_runtime_role, url_runtime, url) ==
    IF url_runtime # EmptyUrl THEN url_runtime ELSE url

RuntimeDbUrl(use_runtime_role, url_runtime, url) ==
    IF use_runtime_role /\ url_runtime # EmptyUrl THEN url_runtime ELSE url

\* Mutant: only the canonical scheme selects the networked backend
UsePostgresCanonicalOnly(runtime_db_url) ==
    runtime_db_url # EmptyUrl /\ StartsWithPostgresql(runtime_db_url)

UsePostgres(runtime_db_url) == IsPgUrl(runtime_db_url)

\* The module body of db.py, run once when the module is imported
LoadDb(e) ==
    LET use_runtime_role == is_truthy(getenv(e.DB_USE_RUNTIME_ROLE, <<>>))
        runtime_db_url == RuntimeDbUrl(use_runtime_role, e.DATABASE_URL_RUNTIME,
                                       e.DATABASE_URL)
        use_postgres == UsePostgres(runtime_db_url)
    IN  [USE_RUNTIME_ROLE |-> use_runtime_role,
         DATABASE_URL_RUNTIME |-> e.DATABASE_URL_RUNTIME,
         DATABASE_URL_MIGRATE |-> e.DATABASE_URL_MIGRATE,
         DATABASE_URL |-> e.DATABASE_URL,
         RUNTIME_DB_URL |-> runtime_db_url,
         USE_POSTGRES |-> use_postgres,
         has_DB_PATH |-> ~use_postgres]


---------------------------------------------------------------------------
(* db.py: connections *)

\* DB_PATH = BASE_DIR / "allergen_nutrition.db"
SqliteFile == [scheme |-> "file", user |-> "", password |-> "", host |-> <<>>,
               port |-> "", path |-> "allergen_nutrition.db", query |-> <<>>]

NoTarget == EmptyUrl

\* The exception a driver call raises when it fails
DriverError(kind) ==
    IF kind = "postgres" THEN "psycopg.OperationalError" ELSE "sqlite3.OperationalError"

\* Mutant: the runtime connection prefers the migrate descriptor
get_conn_via_migrate_url(d, fault) ==
    LET url == IF d.DATABASE_URL_MIGRATE # EmptyUrl THEN d.DATABASE_URL_MIGRATE
               ELSE d.RUNTIME_DB_URL
    IN  IF fault = "connect"
        THEN [desc |-> url, kind |-> "none", target |-> NoTarget,
              raised |-> DriverError(IF IsPgUrl(url) THEN "postgres" ELSE "sqlite")]
        ELSE IF IsPgUrl(url)
             THEN [desc |-> url, kind |-> "postgres", target |-> normalize_pg_url(url),
                   raised |-> ""]
             ELSE [desc |-> url, kind |-> "sqlite", target |-> SqliteFile, raised |-> ""]

\* get_conn(): the descriptor it resolves, the connection it opens (kind and
\* target) or the exception it raises.  fault = "connect" makes the driver's
\* connect call fail.
get_conn(d, fault) ==
    IF d.USE_POSTGRES
    THEN LET normalized_url == normalize_pg_url(d.RUNTIME_DB_URL)
         IN  IF fault = "connect"
             THEN [desc |-> d.RUNTIME_DB_URL, kind |-> "none", target |-> NoTarget,
                   raised |-> DriverError("postgres")]
             ELSE [desc |-> d.RUNTIME_DB_URL, kind |-> "postgres",
                   target |-> normalized_url, raised |-> ""]
    ELSE IF fault = "connect"
         THEN [desc |-> d.RUNTIME_DB_URL, kind |-> "none", target |-> NoTarget,
               raised |-> DriverError("sqlite")]
         ELSE [desc |-> d.RUNTIME_DB_URL, kind |-> "sqlite", target |-> SqliteFile,
               raised |-> ""]

\* Mutant: the operands of the fallback are swapped
MigrateUrlRuntimeFirst(d) ==
    IF d.RUNTIME_DB_URL # EmptyUrl THEN d.RUNTIME_DB_URL ELSE d.DATABASE_URL_MIGRATE

\* migrate_url = DATABASE_URL_MIGRATE or RUNTIME_DB_URL
MigrateUrl(d) ==
    IF d.DATABASE_URL_MIGRATE # EmptyUrl THEN d.DATABASE_URL_MIGRATE ELSE d.RUNTIME_DB_URL

\* get_migrate_conn(): DB_PATH is bound only when the module was loaded with
\* USE_POSTGRES false, so the SQLite fallback raises NameError otherwise.
get_migrate_conn(d, fault) ==
    LET migrate_url == MigrateUrl(d)
    IN  IF IsPgUrl(migrate_url)
        THEN LET normalized_url == normalize_pg_url(migrate_url)
             IN  IF fault = "connect"
                 THEN [desc |-> migrate_url, kind |-> "none", target |-> NoTarget,
                       raised |-> DriverError("postgres")]
                 ELSE [desc |-> migrate_url, kind |-> "postgres",
                       target |-> normalized_url, raised |-> ""]
        ELSE IF ~d.has_DB_PATH
             THEN [desc |-> migrate_url, kind |-> "none", target |-> NoTarget,
                   raised |-> "NameError"]
             ELSE IF fault = "connect"
                  THEN [desc |-> migrate_url, kind |-> "none", target |-> NoTarget,
                        raised |-> DriverError("sqlite")]
                  ELSE [desc |-> migrate_url, kind |-> "sqlite", target |-> SqliteFile,
                        raised |-> ""]

---------------------------------------------------------------------------
(* db.py: rows *)

\* A row as a driver returns it: a sqlite3.Row, or the dict psycopg's
\* dict_row factory builds; columns are the <<name, value>> pairs in the
\* order of the result set
SqliteRow(columns) == [type |-> "sqlite3.Row", columns |-> columns]
DictRow(columns) == [type |-> "dict", columns |-> columns]

\* row.keys()
RowKeys(row) == [i \in 1..Len(row.columns) |-> row.columns[i][1]]

\* row[key] of a sqlite3.Row: the value of the first column whose name is
\* key, letter case ignored
RowLookup(row, key) ==
    LET at == {i \in 1..Len(row.columns) : lower(row.columns[i][1]) = lower(key)}
        first == CHOOSE i \in at : \A j \in at : i <= j
    IN  row.columns[first][2]

\* A dict built by assigning the pairs in order: a key stays where it was
\* first inserted and holds the value assigned last
RECURSIVE DictFromPairs(_, _)
DictFromPairs(pairs, acc) ==
    IF pairs = <<>> THEN acc
    ELSE LET kv == Head(pairs)
             at == {i \in 1..Len(acc) : acc[i][1] = kv[1]}
         IN  IF at # {}
             THEN DictFromPairs(Tail(pairs), [acc EXCEPT ![CHOOSE i \in at : TRUE] = kv])
             ELSE DictFromPairs(Tail(pairs), Append(acc, kv))

\* Mutant: the keys are put in lower case
row_to_dict_lowercasing(row) ==
    IF row.type = "sqlite3.Row"
    THEN DictRow(DictFromPairs([i \in 1..Len(row.columns) |->
                                   <<lower(RowKeys(row)[i]), RowLookup(row, RowKeys(row)[i])>>],
                               <<>>))
    ELSE row

\* row_to_dict(row): {key: row[key] for key in row.keys()} for a
\* sqlite3.Row, the row itself when it is a dict
row_to_dict(row) ==
    IF row.type = "sqlite3.Row"
    THEN DictRow(DictFromPairs([i \in 1..Len(row.columns) |->
                                   <<RowKeys(row)[i], RowLookup(row, RowKeys(row)[i])>>],
                               <<>>))
    ELSE row

---------------------------------------------------------------------------
(* db.py: query translation and execution *)

\* Mutant: only the first placeholder is replaced
ReplaceFirstPlaceholder(q) ==
    IF \E i \in 1..Len(q) : q[i] = "?"
    THEN LET first == CHOOSE i \in 1..Len(q) : q[i] = "?" /\ \A j \in 1..(i - 1) : q[j] # "?"
         IN  SubSeq(q, 1, first - 1) \o <<"%", "s">> \o SubSeq(q, first + 1, Len(q))
    ELSE q

\* str.replace("?", "%s")
RECURSIVE ReplacePlaceholders(_)
ReplacePlaceholders(q) ==
    IF q = <<>> THEN <<>>
    ELSE IF Head(q) = "?"
         THEN <<"%", "s">> \o ReplacePlaceholders(Tail(q))
         ELSE <<Head(q)>> \o ReplacePlaceholders(Tail(q))

Contains(q, c) == \E i \in 1..Len(q) : q[i] = c

prepare_query(d, query) ==
    IF d.USE_POSTGRES /\ Contains(query, "?") THEN ReplacePlaceholders(query) ELSE query

\* The translation execute_query does itself before cursor.execute
ExecuteQueryTranslate(d, query) ==
    IF d.USE_POSTGRES /\ Contains(query, "?") THEN ReplacePlaceholders(query) ELSE query

\* The calls a body makes up to and including the one that fails
Upto(calls, fault) ==
    IF \E i \in 1..Len(calls) : calls[i] = fault
    THEN SubSeq(calls, 1, CHOOSE i \in 1..Len(calls) : calls[i] = fault)
    ELSE calls

Fails(calls, fault) == \E i \in 1..Len(calls) : calls[i] = fault

\* The driver calls that can fail; close() only releases the handle
ExecuteQueryFaults == {"none", "connect", "cursor", "execute", "fetchall", "commit"}

\* execute_query(query): the calls made on the connection, in order, the
\* text handed to cursor.execute and the exception that leaves the function
execute_query(d, query, fault) ==
    LET c == get_conn(d, fault)
        body == <<"cursor", "execute", "fetchall", "commit">>
        made == Upto(body, fault)
    IN  IF c.raised # ""
        THEN [op |-> "execute_query", desc |-> c.desc, kind |-> c.kind,
              target |-> c.target, raised |-> c.raised, sql |-> <<>>,
              events |-> <<"connect">>, fault |-> fault]
        ELSE [op |-> "execute_query", desc |-> c.desc, kind |-> c.kind,
              target |-> c.target,
              raised |-> IF Fails(body, fault) THEN DriverError(c.kind) ELSE "",
              sql |-> IF Contains(made, "execute")
                      THEN ExecuteQueryTranslate(d, query) ELSE <<>>,
              events |-> <<"connect">> \o made \o <<"close">>,
              fault |-> fault]


---------------------------------------------------------------------------
(* db.py: schema management *)

\* The columns of each CREATE TABLE statement of ensure_schema
UsersPgCols ==
    {<<"id", "SERIAL">>, <<"email", "VARCHAR(255)">>, <<"password_hash", "TEXT">>,
     <<"created_at", "TIMESTAMP">>, <<"active_session_token", "TEXT">>}

UsersSqliteCols ==
    {<<"id", "INTEGER AUTOINCREMENT">>, <<"email", "TEXT">>, <<"password_hash", "TEXT">>,
     <<"created_at", "TEXT">>, <<"active_session_token", "TEXT">>}

NutrientCols ==
    {<<n, "REAL">> : n \in {"calories_per_100g", "protein", "carbs", "fat", "fiber",
                            "sugar", "sodium", "serving_size"}}
    \cup {<<"vitamins", "TEXT">>, <<"minerals", "TEXT">>}

NutritionPgCols == {<<"id", "SERIAL">>, <<"ingredient", "VARCHAR(255)">>} \cup NutrientCols

NutritionSqliteCols ==
    {<<"id", "INTEGER AUTOINCREMENT">>, <<"ingredient", "TEXT">>} \cup NutrientCols

NoTable == [exists |-> FALSE, cols |-> {}]
Table(cols) == [exists |-> TRUE, cols |-> cols]

EmptySchema == [users |-> NoTable, nutrition_facts |-> NoTable]

\* A users table created before the active_session_token column existed
LegacyUsers == Table(UsersSqliteCols \ {<<"active_session_token", "TEXT">>})

ColumnNames(t) == {c[1] : c \in t.cols}

\* One DDL statement run by the database behind a connection of the given
\* kind: the schema it leaves and the exception the driver raises.
\* PostgreSQL rejects AUTOINCREMENT; SQLite accepts any type name.
ExecDDL(kind, sch, stmt) ==
    CASE stmt = "create_users_pg" ->
            [raised |-> "",
             schema |-> IF sch.users.exists THEN sch
                        ELSE [sch EXCEPT !.users = Table(UsersPgCols)]]
      [] stmt = "create_users_sqlite" ->
            IF kind = "postgres"
            THEN [raised |-> "psycopg.errors.SyntaxError", schema |-> sch]
            ELSE [raised |-> "",
                  schema |-> IF sch.users.exists THEN sch
                             ELSE [sch EXCEPT !.users = Table(UsersSqliteCols)]]
      [] stmt = "alter_users_add_token" ->
            IF ~sch.users.exists
            THEN [raised |-> IF kind = "postgres" THEN "psycopg.errors.UndefinedTable"
                             ELSE "sqlite3.OperationalError",
                  schema |-> sch]
            ELSE IF "active_session_token" \in ColumnNames(sch.users)
                 THEN [raised |-> IF kind = "postgres"
                                  THEN "psycopg.errors.DuplicateColumn"
                                  ELSE "sqlite3.OperationalError",
                       schema |-> sch]
                 ELSE [raised |-> "",
                       schema |-> [sch EXCEPT !.users.cols =
                                       @ \cup {<<"active_session_token", "TEXT">>}]]
      [] stmt = "create_nutrition_pg" ->
            [raised |-> "",
             schema |-> IF sch.nutrition_facts.exists THEN sch
                        ELSE [sch EXCEPT !.nutrition_facts = Table(NutritionPgCols)]]
      [] stmt = "create_nutrition_sqlite" ->
            IF kind = "postgres"
            THEN [raised |-> "psycopg.errors.SyntaxError", schema |-> sch]
            ELSE [raised |-> "",
                  schema |-> IF sch.nutrition_facts.exists THEN sch
                             ELSE [sch EXCEPT !.nutrition_facts =
                                       Table(NutritionSqliteCols)]]

\* The statements ensure_schema executes, chosen by USE_POSTGRES
SchemaStatements(d) ==
    IF d.USE_POSTGRES
    THEN <<"create_users_pg", "create_nutrition_pg">>
    ELSE <<"create_users_sqlite", "alter_users_add_token", "create_nutrition_sqlite">>

\* The except clause around the ADD COLUMN statement
Swallowed(stmt, raised) ==
    stmt = "alter_users_add_token" /\ raised = "sqlite3.OperationalError"

\* Mutant: a statement that fails ends the DDL without an exception
RECURSIVE ExecStatementsStoppingSilently(_, _, _, _)
ExecStatementsStoppingSilently(kind, stmts, sch, fault) ==
    IF stmts = <<>> THEN [schema |-> sch, raised |-> "", events |-> <<>>]
    ELSE LET stmt == Head(stmts)
             r == IF fault = stmt
                  THEN [raised |-> DriverError(kind), schema |-> sch]
                  ELSE ExecDDL(kind, sch, stmt)
         IN  IF r.raised # ""
             THEN [schema |-> r.schema, raised |-> "", events |-> <<stmt>>]
             ELSE LET rest == ExecStatementsStoppingSilently(kind, Tail(stmts), r.schema, fault)
                  IN  [rest EXCEPT !.events = <<stmt>> \o @]

\* cursor.execute of each statement in turn, until one raises an exception
\* that is not swallowed
RECURSIVE ExecStatements(_, _, _, _)
ExecStatements(kind, stmts, sch, fault) ==
    IF stmts = <<>> THEN [schema |-> sch, raised |-> "", events |-> <<>>]
    ELSE LET stmt == Head(stmts)
             r == IF fault = stmt
                  THEN [raised |-> DriverError(kind), schema |-> sch]
                  ELSE ExecDDL(kind, sch, stmt)
         IN  IF r.raised # "" /\ ~Swallowed(stmt, r.raised)
             THEN [schema |-> r.schema, raised |-> r.raised, events |-> <<stmt>>]
             ELSE LET rest == ExecStatements(kind, Tail(stmts), r.schema, fault)
                  IN  [rest EXCEPT !.events = <<stmt>> \o @]

\* Mutant: migrations are on unless switched off
MigrationsEnabledByDefault(e) == is_truthy(getenv(e.ENABLE_DB_MIGRATIONS, S_1))

\* is_truthy(os.getenv("ENABLE_DB_MIGRATIONS", "0"))
MigrationsEnabled(e) == is_truthy(getenv(e.ENABLE_DB_MIGRATIONS, S_0))

\* The database a connection target names
StoreOf(target) == <<target.scheme, target.host, target.path>>

\* The driver calls of ensure_schema that can fail
EnsureSchemaFaults(d) ==
    {"none", "connect", "cursor", "commit"}
    \cup {SchemaStatements(d)[i] : i \in 1..Len(SchemaStatements(d))}

\* ensure_schema(): the calls made, the exception that leaves the function
\* and the schema of every store afterwards.  The sqlite3 driver runs DDL in
\* autocommit, psycopg runs it in a transaction that close() rolls back
\* unless commit() was reached.
ensure_schema(e, d, st, fault) ==
    IF ~MigrationsEnabled(e)
    THEN [op |-> "ensure_schema", enabled |-> FALSE, kind |-> "none",
          target |-> NoTarget, raised |-> "", events |-> <<>>, fault |-> fault,
          before |-> EmptySchema, after |-> EmptySchema, stores |-> st]
    ELSE LET c == IF d.DATABASE_URL_MIGRATE # EmptyUrl
                  THEN get_migrate_conn(d, fault) ELSE get_conn(d, fault)
         IN  IF c.raised # ""
             THEN [op |-> "ensure_schema", enabled |-> TRUE, kind |-> c.kind,
                   target |-> c.target, raised |-> c.raised, events |-> <<"connect">>,
                   fault |-> fault, before |-> EmptySchema, after |-> EmptySchema,
                   stores |-> st]
             ELSE LET sid == StoreOf(c.target)
                      before == st[sid]
                      run == IF fault = "cursor"
                             THEN [schema |-> before, raised |-> DriverError(c.kind),
                                   events |-> <<>>]
                             ELSE ExecStatements(c.kind, SchemaStatements(d), before, fault)
                      committed == run.raised = "" /\ fault # "commit"
                      raised == IF run.raised # "" THEN run.raised
                                ELSE IF fault = "commit"
                                     THEN DriverError(c.kind) ELSE ""
                      after == IF c.kind = "sqlite" \/ committed THEN run.schema
                               ELSE before
                  IN  [op |-> "ensure_schema", enabled |-> TRUE, kind |-> c.kind,
                       target |-> c.target, raised |-> raised,
                       events |-> <<"connect", "cursor">> \o run.events
                                  \o (IF run.raised = "" THEN <<"commit">> ELSE <<>>)
                                  \o <<"close">>,
                       fault |-> fault, before |-> before, after |-> after,
                       stores |-> [st EXCEPT ![sid] = after]]


---------------------------------------------------------------------------
(* ops/migrate.py *)

\* migrate_url = os.getenv("DATABASE_URL_MIGRATE") or os.getenv("ADMIN_DATABASE_URL")
MigrateRunnerUrl(e, admin) ==
    IF e.DATABASE_URL_MIGRATE # EmptyUrl THEN e.DATABASE_URL_MIGRATE ELSE admin

\* os.environ as main() leaves it before it imports db
MigrateRunnerEnv(e, admin) ==
    [e EXCEPT !.DATABASE_URL_MIGRATE = MigrateRunnerUrl(e, admin),
              !.DATABASE_URL = IF @ = EmptyUrl THEN MigrateRunnerUrl(e, admin) ELSE @]

\* The calls of main() that can fail: the import of db, the connection check
\* and the driver calls of ensure_schema
MigrateRunnerFaults(e, admin) ==
    {"import", "check_connect"} \cup EnsureSchemaFaults(LoadDb(MigrateRunnerEnv(e, admin)))

\* Mutant: the except clauses do not set the exit status
MigrateExitAlwaysZero(raised) == 0

\* sys.exit(0) at the end of the try block, sys.exit(1) in the except clauses
MigrateExit(raised) == IF raised # "" THEN 1 ELSE 0

\* main(): the exit status, the steps taken in order, the exception each step
\* raised, the database the migrate connection went to and the stores
\* afterwards
migrate_main(e, admin, st, fault) ==
    IF MigrateRunnerUrl(e, admin) = EmptyUrl
    THEN [op |-> "migrate", exit |-> 1, steps |-> <<>>, import_raised |-> "",
          check_raised |-> "", schema_raised |-> "", schema_events |-> <<>>,
          target |-> NoTarget, stores |-> st]
    ELSE IF fault = "import"
    THEN [op |-> "migrate", exit |-> MigrateExit("ImportError"), steps |-> <<"import">>,
          import_raised |-> "ImportError", check_raised |-> "", schema_raised |-> "",
          schema_events |-> <<>>, target |-> NoTarget, stores |-> st]
    ELSE LET e2 == MigrateRunnerEnv(e, admin)
             d == LoadDb(e2)
             c == get_migrate_conn(d, IF fault = "check_connect" THEN "connect" ELSE "none")
             r == ensure_schema(e2, d, st, fault)
         IN  IF c.raised # ""
             THEN [op |-> "migrate", exit |-> MigrateExit(c.raised),
                   steps |-> <<"import", "connect">>, import_raised |-> "",
                   check_raised |-> c.raised, schema_raised |-> "",
                   schema_events |-> <<>>, target |-> NoTarget, stores |-> st]
             ELSE [op |-> "migrate", exit |-> MigrateExit(r.raised),
                   steps |-> <<"import", "connect", "close", "ensure_schema">>,
                   import_raised |-> "", check_raised |-> "",
                   schema_raised |-> r.raised, schema_events |-> r.events,
                   target |-> c.target, stores |-> r.stores]

---------------------------------------------------------------------------
(* db_monitor.py: the objects LAST_DB_STATUS can name *)

\* Addresses of dict objects; 0 is None.  A dict that nothing refers to any
\* more is reclaimed and its address is used again.
HeapSize == MaxStarts + 3
Addresses == 1..HeapSize

Free == [free |-> TRUE]

EmptyHeap == [a \in Addresses |-> Free]

\* Mutant: the dict LAST_DB_STATUS names is updated in place
PublishInPlace(hp, slot, status) ==
    IF slot # 0
    THEN [heap |-> [hp EXCEPT ![slot] = status], slot |-> slot]
    ELSE [heap |-> [hp EXCEPT ![1] = status], slot |-> 1]

\* LAST_DB_STATUS = <a new dict>: the object is allocated and the name is
\* bound to it; no object that exists is touched
Publish(hp, slot, status) ==
    LET a == CHOOSE x \in Addresses :
                 /\ hp[x] = Free
                 /\ \A y \in Addresses : hp[y] = Free => x <= y
    IN  [heap |-> [hp EXCEPT ![a] = status], slot |-> a]

\* What is still referred to: by LAST_DB_STATUS, by the local variable
\* status of a thread, by a reader
Roots(slot, thr, obs) ==
    ({slot} \cup {thr[t].status : t \in 1..Len(thr)}
            \cup {obs[i].ref : i \in 1..Len(obs)}) \ {0}

Collect(hp, roots) == [a \in Addresses |-> IF a \in roots THEN hp[a] ELSE Free]

---------------------------------------------------------------------------
(* The configurations and inputs explored *)

PgGeneral == Url("postgres", "app", H_localhost, "/db", <<>>)
PgRuntime == Url("postgresql", "app_runtime", H_example, "/db", <<>>)
PgMigrate == Url("postgresql", "app_migrate", H_example, "/migrated",
                 <<<<"sslmode", "disable">>>>)
NonPg == Url("sqlite", "", <<>>, "/dev.db", <<>>)

FlagValues ==
    {Unset, SetTo(<<>>), SetTo(S_1), SetTo(S_0), SetTo(<<" ", "o", "n", " ">>),
     SetTo(<<"T", "R", "U", "E">>), SetTo(<<"n", "o">>)}

SchemaFlagValues == {Unset, SetTo(S_1), SetTo(S_0), SetTo(<<"T", "R", "U", "E">>)}

Envs(urls, urls_runtime, urls_migrate, role_flags, migration_flags, monitor_flags, intervals) ==
    [DATABASE_URL : urls, DATABASE_URL_RUNTIME : urls_runtime,
     DATABASE_URL_MIGRATE : urls_migrate, DB_USE_RUNTIME_ROLE : role_flags,
     ENABLE_DB_MIGRATIONS : migration_flags, ENABLE_DB_MONITOR : monitor_flags,
     DB_MONITOR_INTERVAL_SECONDS : intervals]

StoreIds ==
    {StoreOf(SqliteFile)}
    \cup {StoreOf(normalize_pg_url(u)) : u \in {PgGeneral, PgRuntime, PgMigrate}}

Queries == {<<"a", "=", "?">>, <<"?", ",", "?">>, <<"a", "%", "s">>, <<>>}

NoCall == [op |-> "none", desc |-> EmptyUrl, kind |-> "none", target |-> NoTarget,
           raised |-> "", query |-> <<>>, sql |-> <<>>, events |-> <<>>,
           fault |-> "none"]

MonitorIdle ==
    /\ LAST_DB_STATUS = 0
    /\ heap = EmptyHeap
    /\ threads = <<>>
    /\ starts = 0
    /\ clock = 0
    /\ observed = <<>>

---------------------------------------------------------------------------
(* Calls into the connection provider and the query translator *)

GetConn ==
    /\ \E fault \in {"none", "connect"} :
          LET c == get_conn(db, fault)
          IN  last' = [NoCall EXCEPT !.op = "get_conn", !.desc = c.desc,
                          !.kind = c.kind, !.target = c.target,
                          !.raised = c.raised, !.fault = fault,
                          !.events = <<"connect">>]
    /\ UNCHANGED <<env, db, stores, hist, monVars>>

GetMigrateConn ==
    /\ \E fault \in {"none", "connect"} :
          LET c == get_migrate_conn(db, fault)
          IN  last' = [NoCall EXCEPT !.op = "get_migrate_conn", !.desc = c.desc,
                          !.kind = c.kind, !.target = c.target,
                          !.raised = c.raised, !.fault = fault,
                          !.events = <<"connect">>]
    /\ UNCHANGED <<env, db, stores, hist, monVars>>

PrepareQuery ==
    /\ \E q \in Queries :
          last' = [NoCall EXCEPT !.op = "prepare_query", !.query = q,
                      !.sql = prepare_query(db, q)]
    /\ UNCHANGED <<env, db, stores, hist, monVars>>

ExecuteQuery ==
    /\ \E q \in Queries, fault \in ExecuteQueryFaults :
          \E r \in {execute_query(db, q, fault)} :
              last' = [NoCall EXCEPT !.op = "execute_query", !.desc = r.desc,
                          !.kind = r.kind, !.target = r.target,
                          !.raised = r.raised, !.query = q, !.sql = r.sql,
                          !.events = r.events, !.fault = fault]
    /\ UNCHANGED <<env, db, stores, hist, monVars>>

Init ==
    /\ env \in Envs({EmptyUrl, PgGeneral, NonPg}, {EmptyUrl, PgRuntime, NonPg},
                    {EmptyUrl, PgMigrate, NonPg}, FlagValues, {Unset}, {Unset}, {Unset})
    /\ db = LoadDb(env)
    /\ stores = [s \in StoreIds |-> EmptySchema]
    /\ last = NoCall
    /\ hist = <<>>
    /\ MonitorIdle

Next ==
    \/ GetConn
    \/ GetMigrateConn
    \/ PrepareQuery
    \/ ExecuteQuery

Spec == Init /\ [][Next]_vars

---------------------------------------------------------------------------
(* Calls of the schema manager *)

EnsureSchema ==
    /\ Len(hist) < MaxEnsureCalls
    /\ \E fault \in EnsureSchemaFaults(db) :
          \E r \in {ensure_schema(env, db, stores, fault)} :
              /\ hist' = Append(hist,
                     [enabled |-> r.enabled, kind |-> r.kind, target |-> r.target,
                      raised |-> r.raised, events |-> r.events, fault |-> r.fault,
                      before |-> r.before, after |-> r.after,
                      changed |-> r.stores # stores])
              /\ stores' = r.stores
    /\ UNCHANGED <<env, db, last, monVars>>

InitSchema ==
    /\ env \in Envs({EmptyUrl, PgGeneral, NonPg}, {EmptyUrl}, {EmptyUrl, PgMigrate, NonPg},
                    {Unset}, SchemaFlagValues, {Unset}, {Unset})
    /\ db = LoadDb(env)
    /\ stores \in {[s \in StoreIds |-> IF s = StoreOf(SqliteFile) THEN u ELSE EmptySchema] :
                      u \in {EmptySchema, [EmptySchema EXCEPT !.users = LegacyUsers]}}
    /\ last = NoCall
    /\ hist = <<>>
    /\ MonitorIdle

NextSchema == EnsureSchema

SpecSchema == InitSchema /\ [][NextSchema]_vars



---------------------------------------------------------------------------
(* Calls of the normalizer, for every descriptor of a bounded family *)

NormalizerHosts == {H_localhost, H_LOCALHOST, H_loopback4, H_loopback6, H_example, <<>>}

NormalizerQueries ==
    {<<>>,
     <<<<"sslmode", "disable">>>>,
     <<<<"sslmode", "require">>>>,
     <<<<"sslmode", "verify-full">>>>,
     <<<<"sslmode", "">>>>,
     <<<<"application_name", "app">>>>,
     <<<<"application_name", "">>>>,
     <<<<"options", "a">>, <<"options", "b">>>>,
     <<<<"application_name", "app">>, <<"sslmode", "disable">>>>}

NormalizerInputs ==
    {[Url(scheme, "u", host, "/db", query) EXCEPT !.port = port] :
        scheme \in {"postgres", "postgresql"}, host \in NormalizerHosts,
        port \in {"", "5432"}, query \in NormalizerQueries}

NormalizePgUrl ==
    /\ \E url \in NormalizerInputs :
          last' = [NoCall EXCEPT !.op = "normalize_pg_url", !.desc = url,
                      !.target = normalize_pg_url(url)]
    /\ UNCHANGED <<env, db, stores, hist, monVars>>

InitNormalize ==
    /\ env \in Envs({EmptyUrl}, {EmptyUrl}, {EmptyUrl}, {Unset}, {Unset}, {Unset}, {Unset})
    /\ db = LoadDb(env)
    /\ stores = [s \in StoreIds |-> EmptySchema]
    /\ last = NoCall
    /\ hist = <<>>
    /\ MonitorIdle

NextNormalize == NormalizePgUrl

SpecNormalize == InitNormalize /\ [][NextNormalize]_vars

---------------------------------------------------------------------------
(* Calls of the row mapper, for the rows of a bounded family of result sets *)

ColumnNameValues == {<<"i", "d">>, <<"E", "m", "a", "i", "l">>, <<"b">>}

ColumnValues == {1, 2}

\* The result sets of a selection from one table: the column names differ,
\* also when letter case is ignored
ResultColumns ==
    {c \in UNION {[1..n -> ColumnNameValues \X ColumnValues] : n \in 1..3} :
        \A i, j \in 1..Len(c) : i # j => lower(c[i][1]) # lower(c[j][1])}

RowToDict ==
    /\ \E c \in ResultColumns :
          \E row \in {SqliteRow(c), DictRow(c)} :
             last' = [op |-> "row_to_dict", row |-> row, result |-> row_to_dict(row)]
    /\ UNCHANGED <<env, db, stores, hist, monVars>>

InitRows ==
    /\ env \in Envs({EmptyUrl}, {EmptyUrl}, {EmptyUrl}, {Unset}, {Unset}, {Unset}, {Unset})
    /\ db = LoadDb(env)
    /\ stores = [s \in StoreIds |-> EmptySchema]
    /\ last = NoCall
    /\ hist = <<>>
    /\ MonitorIdle

NextRows == RowToDict

SpecRows == InitRows /\ [][NextRows]_vars

---------------------------------------------------------------------------
(* Runs of the migration runner *)

AdminUrls == {EmptyUrl, PgGeneral}

RunMigrate ==
    /\ \E admin \in AdminUrls :
          \E fault \in MigrateRunnerFaults(env, admin) :
             \E r \in {migrate_main(env, admin, stores, fault)} :
                 /\ last' = [op |-> "migrate", admin |-> admin, fault |-> fault,
                             exit |-> r.exit, steps |-> r.steps,
                             import_raised |-> r.import_raised,
                             check_raised |-> r.check_raised,
                             schema_raised |-> r.schema_raised,
                             schema_events |-> r.schema_events,
                             target |-> r.target]
                 /\ stores' = r.stores
    /\ UNCHANGED <<env, db, hist, monVars>>

InitMigrate ==
    /\ env \in Envs({EmptyUrl, PgGeneral, NonPg}, {EmptyUrl}, {EmptyUrl, PgMigrate, NonPg},
                    {Unset}, SchemaFlagValues, {Unset}, {Unset})
    /\ db = LoadDb(env)
    /\ stores = [s \in StoreIds |-> EmptySchema]
    /\ last = NoCall
    /\ hist = <<>>
    /\ MonitorIdle

NextMigrate == RunMigrate

SpecMigrate == InitMigrate /\ [][NextMigrate]_vars

---------------------------------------------------------------------------
(* db_monitor.py: probe_db *)

\* Python's None where a text is expected
None == "<None>"

StatusFields == {"db_type", "ok", "checked_at", "latency_ms", "error"}

ProbeFaults == {"none", "connect", "cursor", "execute", "fetchone"}

\* str(e) of the exception a failing driver call raises
ExceptionText(fault) ==
    CASE fault = "connect" -> "connection failed"
      [] fault = "cursor" -> "cannot create cursor"
      [] fault = "execute" -> "query failed"
      [] fault = "fetchone" -> "fetch failed"
      [] OTHER -> ""

\* Mutant: a failure after the connection was opened is re-raised to the caller
probe_db_reraising(d, fault, checked_at, latency) ==
    LET db_type == IF d.USE_POSTGRES THEN "postgres" ELSE "sqlite"
        body == <<"cursor", "execute", "fetchone">>
    IN  IF fault \in {"cursor", "execute", "fetchone"}
        THEN [raised |-> ExceptionText(fault),
              opened |-> TRUE,
              events |-> <<"connect">> \o Upto(body, fault) \o <<"close">>,
              status |-> [db_type |-> db_type, ok |-> FALSE, checked_at |-> checked_at,
                          latency_ms |-> latency, error |-> ExceptionText(fault)]]
        ELSE [raised |-> "",
              opened |-> fault = "none",
              events |-> IF fault = "none" THEN <<"connect">> \o body \o <<"close">>
                         ELSE <<"connect">>,
              status |-> [db_type |-> db_type, ok |-> fault = "none",
                          checked_at |-> checked_at, latency_ms |-> latency,
                          error |-> IF fault = "none" THEN None
                                    ELSE ExceptionText(fault)]]

\* Mutant: the inner except clause does not close the connection
probe_db_leaking(d, fault, checked_at, latency) ==
    LET db_type == IF d.USE_POSTGRES THEN "postgres" ELSE "sqlite"
        c == get_conn(d, fault)
        body == <<"cursor", "execute", "fetchone">>
    IN  IF c.raised # "" \/ Fails(body, fault)
        THEN [raised |-> "",
              opened |-> c.raised = "",
              events |-> IF c.raised # "" THEN <<"connect">>
                         ELSE <<"connect">> \o Upto(body, fault),
              status |-> [db_type |-> db_type, ok |-> FALSE, checked_at |-> checked_at,
                          latency_ms |-> latency, error |-> ExceptionText(fault)]]
        ELSE [raised |-> "",
              opened |-> TRUE,
              events |-> <<"connect">> \o body \o <<"close">>,
              status |-> [db_type |-> db_type, ok |-> TRUE, checked_at |-> checked_at,
                          latency_ms |-> latency, error |-> None]]

\* probe_db(): the exception that leaves the function ("" for none), whether
\* a connection was opened, the calls made on it in order, and the dict
\* returned.  checked_at and latency are the clock readings.
probe_db(d, fault, checked_at, latency) ==
    LET db_type == IF d.USE_POSTGRES THEN "postgres" ELSE "sqlite"
        c == get_conn(d, fault)
        body == <<"cursor", "execute", "fetchone">>
    IN  IF c.raised # "" \/ Fails(body, fault)
        THEN [raised |-> "",
              opened |-> c.raised = "",
              events |-> IF c.raised # "" THEN <<"connect">>
                         ELSE <<"connect">> \o Upto(body, fault) \o <<"close">>,
              status |-> [db_type |-> db_type, ok |-> FALSE, checked_at |-> checked_at,
                          latency_ms |-> latency, error |-> ExceptionText(fault)]]
        ELSE [raised |-> "",
              opened |-> TRUE,
              events |-> <<"connect">> \o body \o <<"close">>,
              status |-> [db_type |-> db_type, ok |-> TRUE, checked_at |-> checked_at,
                          latency_ms |-> latency, error |-> None]]

---------------------------------------------------------------------------
(* db_monitor.py: _monitor_loop *)

\* What the loop can see of a probe: it succeeds, or a driver call fails
LoopProbeFaults == {"none", "connect"}

\* f"Monitor exception: {str(e)}"
MonitorExceptionText(text) ==
    CASE text = "logging failed" -> "Monitor exception: logging failed"
      [] OTHER -> "Monitor exception: "

\* The dict literal of the except clause
SyntheticStatus(now, text) ==
    [db_type |-> "unknown", ok |-> FALSE, checked_at |-> now, latency_ms |-> 0,
     error |-> MonitorExceptionText(text)]

NewThread(interval_seconds) ==
    [pc |-> "loop", interval |-> interval_seconds, checked_at |-> 0, status |-> 0,
     exc |-> ""]

Threads == 1..Len(threads)

\* status = probe_db() is entered: start_time and checked_at are read from
\* the clock, which has moved on since the last reading
BeginProbe(t) ==
    /\ threads[t].pc = "loop"
    /\ clock < MaxClock
    /\ clock' = clock + 1
    /\ threads' = [threads EXCEPT ![t].pc = "probing", ![t].checked_at = clock + 1]
    /\ UNCHANGED <<dbVars, LAST_DB_STATUS, heap, starts, observed>>

\* probe_db() returns its dict and LAST_DB_STATUS = status binds it, or
\* probe_db() raises; the latency is the time that passed since checked_at
\* was read
EndProbe(t) ==
    /\ threads[t].pc = "probing"
    /\ \E fault \in LoopProbeFaults :
          LET r == probe_db(db, fault, threads[t].checked_at,
                            clock - threads[t].checked_at)
              p == Publish(heap, LAST_DB_STATUS, r.status)
          IN  IF r.raised # ""
              THEN /\ threads' = [threads EXCEPT ![t].pc = "except",
                                     ![t].checked_at = 0, ![t].exc = r.raised]
                   /\ UNCHANGED <<heap, LAST_DB_STATUS>>
              ELSE /\ threads' = [threads EXCEPT ![t].pc = "log", ![t].checked_at = 0,
                                     ![t].status = p.slot]
                   /\ LAST_DB_STATUS' = p.slot
                   /\ heap' = Collect(p.heap, Roots(p.slot, threads', observed))
    /\ UNCHANGED <<dbVars, starts, clock, observed>>

\* if status["ok"]: logger.info(...) else: logger.info(...): the call
\* returns, or raises
LogStatus(t) ==
    /\ threads[t].pc = "log"
    /\ \E raises \in BOOLEAN :
          threads' = [threads EXCEPT ![t].pc = IF raises THEN "except" ELSE "sleep",
                         ![t].status = 0,
                         ![t].exc = IF raises THEN "logging failed" ELSE ""]
    /\ heap' = Collect(heap, Roots(LAST_DB_STATUS, threads', observed))
    /\ UNCHANGED <<dbVars, LAST_DB_STATUS, starts, clock, observed>>

\* except Exception: logger.error(...), then LAST_DB_STATUS = {...}.
\* Nothing encloses the except clause: when logger.error raises, the
\* exception leaves the loop and the thread ends.
HandleException(t) ==
    /\ threads[t].pc = "except"
    /\ \E raises \in BOOLEAN :
          IF raises
          THEN /\ threads' = [threads EXCEPT ![t].pc = "dead"]
               /\ UNCHANGED <<heap, LAST_DB_STATUS>>
          ELSE LET p == Publish(heap, LAST_DB_STATUS,
                                SyntheticStatus(clock, threads[t].exc))
               IN  /\ threads' = [threads EXCEPT ![t].pc = "sleep", ![t].exc = ""]
                   /\ LAST_DB_STATUS' = p.slot
                   /\ heap' = Collect(p.heap, Roots(p.slot, threads', observed))
    /\ UNCHANGED <<dbVars, starts, clock, observed>>

\* time.sleep(interval_seconds), then the next iteration
Sleep(t) ==
    /\ threads[t].pc = "sleep"
    /\ threads' = [threads EXCEPT ![t].pc = "loop"]
    /\ UNCHANGED <<dbVars, LAST_DB_STATUS, heap, starts, clock, observed>>

---------------------------------------------------------------------------
(* db_monitor.py: start_db_monitor *)

Digits == <<"0", "1", "2", "3", "4", "5", "6", "7", "8", "9">>

IsDigit(c) == \E i \in 1..10 : Digits[i] = c
DigitValue(c) == (CHOOSE i \in 1..10 : Digits[i] = c) - 1

RECURSIVE DecimalValue(_)
DecimalValue(s) ==
    IF s = <<>> THEN 0 ELSE 10 * DecimalValue(SubSeq(s, 1, Len(s) - 1)) + DigitValue(s[Len(s)])

\* int(text): surrounding whitespace and one sign are accepted; anything
\* else than decimal digits raises ValueError
ParseInt(text) ==
    LET t == strip(text)
        signed == t # <<>> /\ Head(t) \in {"+", "-"}
        digits == IF signed THEN Tail(t) ELSE t
    IN  IF digits # <<>> /\ \A i \in 1..Len(digits) : IsDigit(digits[i])
        THEN [ok |-> TRUE,
              value |-> IF signed /\ Head(t) = "-" THEN 0 - DecimalValue(digits)
                        ELSE DecimalValue(digits)]
        ELSE [ok |-> FALSE, value |-> 0]

DefaultInterval == 60

\* Mutant: the monitor is on unless switched off
MonitorEnabledByDefault(e) == strip(getenv(e.ENABLE_DB_MONITOR, S_1)) \in TruthyWords

\* enable_monitor in ("1", "true", "yes", "on"), enable_monitor being stripped
MonitorEnabled(e) == strip(getenv(e.ENABLE_DB_MONITOR, S_0)) \in TruthyWords

\* Mutant: a value below 1 is raised to 1
IntervalSecondsClamped(e) ==
    LET parsed == ParseInt(getenv(e.DB_MONITOR_INTERVAL_SECONDS, <<"6", "0">>))
    IN  IF parsed.ok
        THEN IF parsed.value < 1 THEN 1 ELSE parsed.value
        ELSE DefaultInterval

IntervalSeconds(e) ==
    LET parsed == ParseInt(getenv(e.DB_MONITOR_INTERVAL_SECONDS, <<"6", "0">>))
    IN  IF parsed.ok
        THEN IF parsed.value < 1 THEN DefaultInterval ELSE parsed.value
        ELSE DefaultInterval

StartDbMonitor ==
    /\ starts < MaxStarts
    /\ starts' = starts + 1
    /\ threads' = IF MonitorEnabled(env)
                  THEN Append(threads, NewThread(IntervalSeconds(env)))
                  ELSE threads
    /\ UNCHANGED <<dbVars, LAST_DB_STATUS, heap, clock, observed>>

\* Any other thread reads db_monitor.LAST_DB_STATUS and keeps what it got
ReadStatus ==
    /\ observed' = IF LAST_DB_STATUS = 0 THEN <<[ref |-> 0, value |-> Free]>>
                   ELSE <<[ref |-> LAST_DB_STATUS, value |-> heap[LAST_DB_STATUS]]>>
    /\ heap' = Collect(heap, Roots(LAST_DB_STATUS, threads, observed'))
    /\ UNCHANGED <<dbVars, LAST_DB_STATUS, threads, starts, clock>>

InitMonitor ==
    /\ env \in Envs({EmptyUrl, PgGeneral}, {EmptyUrl}, {EmptyUrl}, {Unset}, {Unset},
                    FlagValues, {Unset})
    /\ db = LoadDb(env)
    /\ stores = [s \in StoreIds |-> EmptySchema]
    /\ last = NoCall
    /\ hist = <<>>
    /\ MonitorIdle

NextMonitor ==
    \/ StartDbMonitor
    \/ ReadStatus
    \/ \E t \in Threads :
          \/ BeginProbe(t)
          \/ EndProbe(t)
          \/ LogStatus(t)
          \/ HandleException(t)
          \/ Sleep(t)

SpecMonitor == InitMonitor /\ [][NextMonitor]_vars


---------------------------------------------------------------------------
(* Calls of start_db_monitor, for every flag and interval setting *)

IntervalValues ==
    {Unset, SetTo(<<"5">>), SetTo(<<"1">>), SetTo(<<"0">>), SetTo(<<"-", "3">>),
     SetTo(<<"a", "b", "c">>), SetTo(<<>>), SetTo(<<" ", "7", " ">>),
     SetTo(<<"1", ".", "5">>), SetTo(<<"+", "2">>)}

InitStart ==
    /\ env \in Envs({EmptyUrl}, {EmptyUrl}, {EmptyUrl}, {Unset}, {Unset}, FlagValues,
                    IntervalValues)
    /\ db = LoadDb(env)
    /\ stores = [s \in StoreIds |-> EmptySchema]
    /\ last = NoCall
    /\ hist = <<>>
    /\ MonitorIdle

NextStart == StartDbMonitor

SpecStart == InitStart /\ [][NextStart]_vars

---------------------------------------------------------------------------
(* One probe at a time, for every configuration and every driver failure *)

ProbeOnce ==
    /\ \E fault \in ProbeFaults, latency \in 0..(MaxClock - clock) :
          \E r \in {probe_db(db, fault, clock, latency)} :
              /\ last' = [op |-> "probe_db", fault |-> fault, raised |-> r.raised,
                          opened |-> r.opened, events |-> r.events,
                          status |-> r.status]
              /\ clock' = clock + latency
    /\ UNCHANGED <<env, db, stores, hist, LAST_DB_STATUS, heap, threads, starts, observed>>

InitProbe ==
    /\ env \in Envs({EmptyUrl, PgGeneral, NonPg}, {EmptyUrl, PgRuntime}, {EmptyUrl},
                    FlagValues, {Unset}, {Unset}, {Unset})
    /\ db = LoadDb(env)
    /\ stores = [s \in StoreIds |-> EmptySchema]
    /\ last = NoCall
    /\ hist = <<>>
    /\ MonitorIdle

NextProbe == ProbeOnce

SpecProbe == InitProbe /\ [][NextProbe]_vars

---------------------------------------------------------------------------
(* The operations of the core that open a connection, in any order *)

InitCore ==
    /\ env \in Envs({EmptyUrl, PgGeneral}, {EmptyUrl}, {EmptyUrl}, {Unset},
                    {Unset, SetTo(S_1)}, {Unset}, {Unset})
    /\ db = LoadDb(env)
    /\ stores = [s \in StoreIds |-> EmptySchema]
    /\ last = NoCall
    /\ hist = <<>>
    /\ MonitorIdle

NextCore ==
    \/ ExecuteQuery
    \/ EnsureSchema
    \/ ProbeOnce

SpecCore == InitCore /\ [][NextCore]_vars

---------------------------------------------------------------------------
(* security/authz.py: the ownership helper *)

S_user_id == <<"u", "s", "e", "r", "_", "i", "d">>
S_id == <<"i", "d">>
S_api == <<"/", "a", "p", "i", "/">>

\* str.startswith
startswith(s, prefix) == Len(s) >= Len(prefix) /\ SubSeq(s, 1, Len(prefix)) = prefix

\* AUTHZ_STRICT, computed when security/authz.py is imported
AUTHZ_STRICT(e) == lower(strip(getenv(e.AUTHZ_STRICT, S_0))) \in {S_1, S_true, S_yes, S_on}

\* session.get("user_id") of a session without a user: None, which is
\* false and equals no id
NoneId == 0

\* is_admin(): the session flag or the flag of the logged-in current_user
is_admin(strict, sess) ==
    IF ~strict THEN FALSE
    ELSE IF sess.is_admin THEN TRUE
    ELSE sess.current_user_authenticated /\ sess.current_user_is_admin

\* resource.get(key): the value stored under exactly that key, or None
DictGet(resource, key) ==
    IF \E i \in 1..Len(resource.columns) : resource.columns[i][1] = key
    THEN resource.columns[CHOOSE i \in 1..Len(resource.columns) :
                              resource.columns[i][1] = key][2]
    ELSE NoneId

\* No row: what fetchone returns when the id matches nothing
NoRow == [type |-> "None", columns |-> <<>>]

\* The driver calls of get_or_404_owned that can raise
AuthzFaults == {"none", "connect", "cursor", "execute", "fetchone"}

\* What a call of get_or_404_owned ends with: "resource" (the dict,
\* returned), "none" (None returned), "response" (the pair of a JSON body
\* and a status code, returned), "abort" (abort(code)), or "raise" (the
\* exception of db.get_conn, which no handler encloses)
AuthzEnd(outcome, code, resource, opened, events, raised) ==
    [outcome |-> outcome, code |-> code, resource |-> resource,
     opened |-> opened, events |-> events, raised |-> raised]

\* return jsonify(...), code on an /api/ path, abort(code) on any other.
\* abort raises an HTTPException, which is an Exception: inside the try
\* block of the strict branch the except clause catches it and, the path
\* not being an /api/ path, ends with abort(500).
AuthzRefuse(api, code, in_try, opened, events) ==
    IF api THEN AuthzEnd("response", code, NoRow, opened, events, "")
    ELSE IF in_try THEN AuthzEnd("abort", 500, NoRow, opened, events, "")
    ELSE AuthzEnd("abort", code, NoRow, opened, events, "")

\* get_or_404_owned(model, id_field, id_value, owner_field, allow_admin) in
\* a request of the given session and path; found is the columns of the
\* row of the table whose id_field is id_value, <<>> when there is none
get_or_404_owned(d, strict, sess, path, found, owner_field, allow_admin, fault) ==
    LET user_id == sess.user_id
        api == startswith(path, S_api)
        c == get_conn(d, fault)
        body == <<"cursor", "execute", "fetchone">>
        made == <<"connect">> \o Upto(body, fault)
        row == IF found = <<>> THEN NoRow
               ELSE IF c.kind = "postgres" THEN DictRow(found) ELSE SqliteRow(found)
    IN  IF ~strict
        THEN IF c.raised # ""
             THEN AuthzEnd("raise", 0, NoRow, FALSE, <<"connect">>, c.raised)
             ELSE IF Fails(body, fault)
                  THEN AuthzEnd("none", 0, NoRow, TRUE, made, "")
                  ELSE IF row # NoRow
                       THEN AuthzEnd("resource", 0, row_to_dict(row), TRUE,
                                     made \o <<"close">>, "")
                       ELSE AuthzEnd("none", 0, NoRow, TRUE, made \o <<"close">>, "")
        ELSE IF user_id = NoneId
             THEN AuthzRefuse(api, 401, FALSE, FALSE, <<>>)
             ELSE LET is_user_admin == allow_admin /\ is_admin(strict, sess)
                  IN  IF c.raised # ""
                      THEN AuthzEnd("raise", 0, NoRow, FALSE, <<"connect">>, c.raised)
                      ELSE IF Fails(body, fault)
                           THEN AuthzRefuse(api, 500, TRUE, TRUE, made)
                           ELSE IF row = NoRow
                                THEN AuthzRefuse(api, 404, TRUE, TRUE, made \o <<"close">>)
                                ELSE LET resource == row_to_dict(row)
                                     IN  IF /\ ~is_user_admin
                                            /\ DictGet(resource, owner_field) # user_id
                                         THEN AuthzRefuse(api, 404, TRUE, TRUE,
                                                          made \o <<"close">>)
                                         ELSE AuthzEnd("resource", 0, resource, TRUE,
                                                       made \o <<"close">>, "")

\* The sessions of a request: nobody, or user 1 or 2, admin or not
Sessions ==
    [user_id : {NoneId, 1, 2}, is_admin : BOOLEAN,
     current_user_authenticated : {FALSE}, current_user_is_admin : {FALSE}]
    \cup [user_id : {1}, is_admin : {FALSE},
          current_user_authenticated : {TRUE}, current_user_is_admin : {TRUE}]

\* request.path
Paths == {S_api \o <<"r">>, <<"/", "r">>}

\* The row of the table with the requested id: none, one owned by user 1,
\* or one of a table without the owner column
ResourceRows == {<<>>, << <<S_id, 1>> >>, << <<S_id, 1>>, <<S_user_id, 1>> >>}

GetOr404Owned ==
    /\ \E sess \in Sessions, path \in Paths, found \in ResourceRows,
          allow_admin \in BOOLEAN, fault \in AuthzFaults :
          \E r \in {get_or_404_owned(db, AUTHZ_STRICT(env), sess, path, found,
                                     S_user_id, allow_admin, fault)} :
              last' = [op |-> "get_or_404_owned", strict |-> AUTHZ_STRICT(env),
                       sess |-> sess, path |-> path, found |-> found,
                       owner_field |-> S_user_id, allow_admin |-> allow_admin,
                       fault |-> fault, outcome |-> r.outcome, code |-> r.code,
                       resource |-> r.resource, opened |-> r.opened,
                       events |-> r.events, raised |-> r.raised]
    /\ UNCHANGED <<env, db, stores, hist, monVars>>

\* A process with either backend and AUTHZ_STRICT unset or "1"
InitAuthz ==
    /\ env \in {e @@ [AUTHZ_STRICT |-> v] :
                   e \in Envs({EmptyUrl, PgGeneral}, {EmptyUrl}, {EmptyUrl}, {Unset},
                              {Unset}, {Unset}, {Unset}),
                   v \in {Unset, SetTo(S_1)}}
    /\ db = LoadDb(env)
    /\ stores = [s \in StoreIds |-> EmptySchema]
    /\ last = NoCall
    /\ hist = <<>>
    /\ MonitorIdle

NextAuthz == GetOr404Owned

SpecAuthz == InitAuthz /\ [][NextAuthz]_vars

---------------------------------------------------------------------------
(* utils/seo_links.py: related goals *)

\* The longest registry of the model
MaxGoals == 3

IsLetter(c) == \E i \in 1..26 : Upper[i] = c \/ LowerAlpha[i] = c

UpperChar(c) ==
    IF \E i \in 1..26 : LowerAlpha[i] = c
    THEN Upper[CHOOSE i \in 1..26 : LowerAlpha[i] = c]
    ELSE c

\* str.title(): a letter is put in upper case after a character that is
\* not a letter, in lower case after a letter
title(s) ==
    [i \in 1..Len(s) |-> IF i = 1 \/ ~IsLetter(s[i - 1]) THEN UpperChar(s[i])
                         ELSE LowerChar(s[i])]

\* slug.replace("-", " ")
ReplaceHyphens(s) == [i \in 1..Len(s) |-> IF s[i] = "-" THEN " " ELSE s[i]]

\* re.sub(r"[\s_]+", " ", s)
RECURSIVE CollapseSeparators(_, _)
CollapseSeparators(s, in_run) ==
    IF s = <<>> THEN <<>>
    ELSE IF Head(s) \in Whitespace \cup {"_"}
         THEN (IF in_run THEN <<>> ELSE <<" ">>) \o CollapseSeparators(Tail(s), TRUE)
         ELSE <<Head(s)>> \o CollapseSeparators(Tail(s), FALSE)

norm_kw(s) == IF s = <<>> THEN <<>> ELSE CollapseSeparators(lower(strip(s)), FALSE)

\* [_norm_kw(x) for x in keywords if _norm_kw(x)]
RECURSIVE NormalizedKeywords(_)
NormalizedKeywords(keywords) ==
    IF keywords = <<>> THEN <<>>
    ELSE IF norm_kw(Head(keywords)) # <<>>
         THEN <<norm_kw(Head(keywords))>> \o NormalizedKeywords(Tail(keywords))
         ELSE NormalizedKeywords(Tail(keywords))

goal_keywords(goal) ==
    [primary |-> NormalizedKeywords(goal.keywords.primary),
     related |-> NormalizedKeywords(goal.keywords.related)]

\* set(list)
SetOf(list) == {list[i] : i \in 1..Len(list)}

\* ord(c) of the characters of the model
Ord(c) ==
    IF c = "\t" THEN 9
    ELSE IF c = "\n" THEN 10
    ELSE IF c = " " THEN 32
    ELSE IF c = "-" THEN 45
    ELSE IF c = "_" THEN 95
    ELSE IF \E i \in 1..26 : Upper[i] = c
         THEN 64 + (CHOOSE i \in 1..26 : Upper[i] = c)
         ELSE 96 + (CHOOSE i \in 1..26 : LowerAlpha[i] = c)

\* s < t of two str: the first character that differs decides, and a
\* proper prefix comes first
StrLess(s, t) ==
    \E i \in 1..Len(t) :
        /\ \A j \in 1..(i - 1) : j <= Len(s) /\ s[j] = t[j]
        /\ i > Len(s) \/ Ord(s[i]) < Ord(t[i])

\* Mutant: the sort key leaves the name out
KeyLessIgnoringName(a, b) ==
    \/ a.score > b.score
    \/ a.score = b.score /\ StrLess(a.slug, b.slug)

\* (-a.score, a.name_l, a.slug) < (-b.score, b.name_l, b.slug)
KeyLess(a, b) ==
    \/ a.score > b.score
    \/ a.score = b.score /\ StrLess(a.name_l, b.name_l)
    \/ a.score = b.score /\ a.name_l = b.name_l /\ StrLess(a.slug, b.slug)

\* list.sort(key=...): stable, an entry goes after the entries whose key is
\* not greater
RECURSIVE SortScored(_)
SortScored(scored) ==
    IF scored = <<>> THEN <<>>
    ELSE LET front == SortScored(SubSeq(scored, 1, Len(scored) - 1))
             x == scored[Len(scored)]
             k == Cardinality({i \in 1..Len(front) : ~KeyLess(x, front[i])})
         IN  SubSeq(front, 1, k) \o <<x>> \o SubSeq(front, k + 1, Len(front))

\* (g.get("name") or slug.replace("-", " ").title()).strip()
GoalName(g) == strip(IF g.name # <<>> THEN g.name ELSE title(ReplaceHyphens(g.slug)))

\* The loop that scores every goal against the current one
RECURSIVE ScoreGoals(_, _, _, _)
ScoreGoals(goals, current_slug, cur_primary_set, cur_related_set) ==
    IF goals = <<>> THEN <<>>
    ELSE LET g == Head(goals)
             rest == ScoreGoals(Tail(goals), current_slug, cur_primary_set, cur_related_set)
             other == goal_keywords(g)
             p_overlap == cur_primary_set \cap SetOf(other.primary)
             r_overlap == cur_related_set \cap SetOf(other.related)
             score == (3 * Cardinality(p_overlap)) + (1 * Cardinality(r_overlap))
         IN  IF g.slug = <<>> \/ g.slug = current_slug THEN rest
             ELSE IF score <= 0 THEN rest
             ELSE <<[score |-> score, name_l |-> lower(GoalName(g)),
                     slug |-> g.slug, g |-> g]>> \o rest

\* compute_related_goals(current_slug, goals_registry, limit), goals being
\* the list goals_registry["goals"] of goal dicts
compute_related_goals(current_slug, goals, limit) ==
    LET at == {i \in 1..Len(goals) : goals[i].slug = current_slug}
    IN  IF at = {} THEN <<>>
        ELSE LET current == goals[CHOOSE i \in at : \A j \in at : i <= j]
                 cur == goal_keywords(current)
                 scored == SortScored(ScoreGoals(goals, current_slug,
                                                 SetOf(cur.primary), SetOf(cur.related)))
                 n == IF limit > 0 THEN limit ELSE 0
                 m == IF n < Len(scored) THEN n ELSE Len(scored)
             IN  [i \in 1..m |-> [slug |-> scored[i].slug,
                                  name |-> GoalName(scored[i].g),
                                  summary |-> strip(scored[i].g.summary),
                                  score |-> scored[i].score]]

S_a == <<"a">>
S_b == <<"b">>
S_c_d == <<"c", "-", "d">>
S_Ab == <<"A", "b", " ">>

\* The keywords of a goal: "x" and "x_y" primary and "z" related; " X"
\* primary and "z" and "w" related; "w" related only
KeywordsXY == [primary |-> << <<"x">>, <<"x", "_", "y">> >>, related |-> << <<"z">> >>]
KeywordsX == [primary |-> << <<" ", "X">> >>, related |-> << <<"z">>, <<"w">> >>]
KeywordsW == [primary |-> <<>>, related |-> << <<"W">>, <<"_">> >>]

Goal(slug, name, keywords) ==
    [slug |-> slug, name |-> name, summary |-> <<" ", "s">>, keywords |-> keywords]

\* The goals of the registries: with and without a name, with each of the
\* keyword lists
Goals ==
    {Goal(S_a, <<>>, KeywordsXY), Goal(S_a, S_Ab, KeywordsX),
     Goal(S_b, <<>>, KeywordsX), Goal(S_b, <<>>, KeywordsXY), Goal(S_b, S_Ab, KeywordsW),
     Goal(S_c_d, <<>>, KeywordsX), Goal(S_c_d, S_Ab, KeywordsX), Goal(S_c_d, <<>>, KeywordsW)}

Registries == UNION {[1..n -> Goals] : n \in 1..MaxGoals}

\* The slugs asked for: of goals and of no goal
CurrentSlugs == {S_a, S_b, S_c_d, <<"z">>}

Limits == {-1, 0, 1, 2, 10}

ComputeRelatedGoals ==
    /\ last.op \in {"goals_registry", "compute_related_goals"}
    /\ \E current_slug \in CurrentSlugs, limit \in Limits :
          \E r \in {compute_related_goals(current_slug, last.goals_registry, limit)} :
              last' = [op |-> "compute_related_goals",
                       goals_registry |-> last.goals_registry,
                       current_slug |-> current_slug, limit |-> limit, result |-> r]
    /\ UNCHANGED <<env, db, stores, hist, monVars>>

\* A process that has loaded a goals registry
InitRelated ==
    /\ env \in Envs({EmptyUrl}, {EmptyUrl}, {EmptyUrl}, {Unset}, {Unset}, {Unset}, {Unset})
    /\ db = LoadDb(env)
    /\ stores = [s \in StoreIds |-> EmptySchema]
    /\ last \in {[op |-> "goals_registry", goals_registry |-> goals] : goals \in Registries}
    /\ hist = <<>>
    /\ MonitorIdle

NextRelated == ComputeRelatedGoals

SpecRelated == InitRelated /\ [][NextRelated]_vars

---------------------------------------------------------------------------
(* Properties *)

\* C1: probe_db never raises.  Whatever the outcome of get_conn, of the
\* cursor, of the SELECT 1 and of fetchone, it returns a dict with the five
\* fields of a Health Status Record; when one of the calls fails the record
\* has ok = False and a non-empty error text, when all succeed it has
\* ok = True and error = None.
ProbeNeverRaises ==
    last.op = "probe_db" =>
        /\ last.raised = ""
        /\ DOMAIN last.status = StatusFields
        /\ last.fault # "none" =>
              /\ last.status.ok = FALSE
              /\ last.status.error \notin {None, ""}
        /\ last.fault = "none" =>
              /\ last.status.ok = TRUE
              /\ last.status.error = None

\* C1: the probe of an unreachable database came back with a failure record
ProbeFailureRecorded ==
    /\ last.op = "probe_db"
    /\ last.fault = "connect"
    /\ last.raised = ""
    /\ last.status.ok = FALSE

\* C2: the monitor loop never ends on an error: no thread that was started
\* is ever left by an exception, whatever the probe and the logging do.
MonitorLoopNeverTerminates ==
    \A t \in Threads : threads[t].pc # "dead"

\* C3: while ENABLE_DB_MONITOR is not truthy no thread is started, no probe
\* is run and LAST_DB_STATUS stays None, however often start_db_monitor is
\* called; LAST_DB_STATUS is not None only once a thread was started with
\* the flag enabled.
MonitorInertWhenDisabled ==
    /\ ~is_truthy(getenv(env.ENABLE_DB_MONITOR, S_0)) =>
          /\ threads = <<>>
          /\ clock = 0
          /\ LAST_DB_STATUS = 0
          /\ heap = EmptyHeap
    /\ LAST_DB_STATUS # 0 =>
          /\ threads # <<>>
          /\ is_truthy(getenv(env.ENABLE_DB_MONITOR, S_0))

\* C3: start_db_monitor was called with the flag disabled
StartCalledWhileDisabled ==
    /\ starts > 0
    /\ ~is_truthy(getenv(env.ENABLE_DB_MONITOR, S_0))
    /\ threads = <<>>
    /\ LAST_DB_STATUS = 0

\* C4: at most one probe started by the monitor is in progress at any time,
\* however many times start_db_monitor was called.
OneProbeInFlight ==
    Cardinality({t \in Threads : threads[t].pc = "probing"}) <= 1

\* C5: LAST_DB_STATUS is None or names a dict with all five fields, and what
\* a reader got from it is such a dict that is never changed afterwards:
\* the monitor only binds the name to new dicts.
ReadersSeeWholeRecords ==
    /\ LAST_DB_STATUS # 0 => DOMAIN heap[LAST_DB_STATUS] = StatusFields
    /\ \A i \in 1..Len(observed) :
          observed[i].ref # 0 =>
              /\ DOMAIN observed[i].value = StatusFields
              /\ heap[observed[i].ref] = observed[i].value

\* C5: a reader holds the previous record while the monitor has published
\* a new one
ReaderHoldsPreviousRecord ==
    /\ observed # <<>>
    /\ observed[1].ref # 0
    /\ LAST_DB_STATUS # 0
    /\ LAST_DB_STATUS # observed[1].ref

\* C6: with ENABLE_DB_MIGRATIONS unset or not truthy a call of ensure_schema
\* opens no connection, executes no statement and no commit, changes no
\* store and returns without raising.
DisabledMigrationsAreInert ==
    ~is_truthy(getenv(env.ENABLE_DB_MIGRATIONS, S_0)) =>
        \A i \in 1..Len(hist) :
            /\ hist[i].events = <<>>
            /\ hist[i].kind = "none"
            /\ hist[i].raised = ""
            /\ ~hist[i].changed

\* C6: ensure_schema was called with the flag not set to a truthy value on
\* stores without tables, which still have none
DisabledCallOnEmptyStore ==
    /\ hist # <<>>
    /\ ~is_truthy(getenv(env.ENABLE_DB_MIGRATIONS, S_0))
    /\ \A s \in StoreIds : stores[s] = EmptySchema

\* C7: with migrations enabled, a call of ensure_schema on an empty store
\* followed by a second call leaves the tables users and nutrition_facts,
\* the second call changes nothing and raises no error (no driver call
\* failing for a reason of its own).
EnsureSchemaIdempotent ==
    \A i \in 1..(Len(hist) - 1) :
        ( /\ hist[i].enabled
          /\ hist[i].kind # "none"
          /\ hist[i].before = EmptySchema
          /\ hist[i].fault = "none"
          /\ hist[i + 1].fault = "none" ) =>
            /\ hist[i].after.users.exists
            /\ hist[i].after.nutrition_facts.exists
            /\ hist[i + 1].raised = ""
            /\ hist[i + 1].after = hist[i].after

\* The descriptor the runtime connection is to use according to the
\* environment
ExpectedRuntimeUrl ==
    IF /\ lower(strip(getenv(env.DB_USE_RUNTIME_ROLE, <<>>))) \in {S_1, S_true, S_yes, S_on}
       /\ env.DATABASE_URL_RUNTIME # EmptyUrl
    THEN env.DATABASE_URL_RUNTIME
    ELSE env.DATABASE_URL

\* C8: get_conn resolves DATABASE_URL_RUNTIME when DB_USE_RUNTIME_ROLE is
\* truthy and DATABASE_URL_RUNTIME is not empty, and DATABASE_URL in every
\* other case; a PostgreSQL connection it opens goes to that descriptor.
RuntimeDescriptorSelection ==
    last.op \in {"get_conn", "execute_query"} =>
        /\ last.desc = ExpectedRuntimeUrl
        /\ last.kind = "postgres" => last.target = normalize_pg_url(ExpectedRuntimeUrl)
        /\ last.raised = "" => (last.kind = "postgres" <=> IsPgUrl(ExpectedRuntimeUrl))

\* C8: get_conn connected to the runtime descriptor although a different
\* general descriptor is configured
RuntimeOverrideUsed ==
    /\ last.op = "get_conn"
    /\ last.kind = "postgres"
    /\ last.desc = env.DATABASE_URL_RUNTIME
    /\ env.DATABASE_URL # EmptyUrl
    /\ env.DATABASE_URL # env.DATABASE_URL_RUNTIME

\* C9: get_migrate_conn resolves DATABASE_URL_MIGRATE when it is not empty;
\* when it is empty, get_migrate_conn resolves and opens what get_conn
\* does, whatever the runtime-role override.
MigrateDescriptorSelection ==
    last.op = "get_migrate_conn" =>
        /\ env.DATABASE_URL_MIGRATE # EmptyUrl =>
              /\ last.desc = env.DATABASE_URL_MIGRATE
              /\ last.kind = "postgres" =>
                    last.target = normalize_pg_url(env.DATABASE_URL_MIGRATE)
        /\ env.DATABASE_URL_MIGRATE = EmptyUrl =>
              /\ last.desc = ExpectedRuntimeUrl
              /\ last.desc = get_conn(db, last.fault).desc
              /\ last.kind = get_conn(db, last.fault).kind
              /\ last.target = get_conn(db, last.fault).target

\* C9: without a migrate descriptor get_migrate_conn connected to the
\* runtime-role descriptor
MigrateFallsBackToRuntime ==
    /\ last.op = "get_migrate_conn"
    /\ env.DATABASE_URL_MIGRATE = EmptyUrl
    /\ last.kind = "postgres"
    /\ last.desc = env.DATABASE_URL_RUNTIME
    /\ env.DATABASE_URL # env.DATABASE_URL_RUNTIME

\* The module globals of the configuration that differs from the current
\* one only in having DATABASE_URL_MIGRATE unset
WithoutMigrateUrl == LoadDb([env EXCEPT !.DATABASE_URL_MIGRATE = EmptyUrl])

\* C10: setting DATABASE_URL_MIGRATE changes nothing for the runtime side:
\* USE_POSTGRES, the descriptor and connection of get_conn, the result of
\* prepare_query and what execute_query does are those of the same
\* configuration without DATABASE_URL_MIGRATE.
MigrateUrlLeavesRuntimeAlone ==
    /\ db.USE_POSTGRES = WithoutMigrateUrl.USE_POSTGRES
    /\ db.RUNTIME_DB_URL = WithoutMigrateUrl.RUNTIME_DB_URL
    /\ last.op = "get_conn" =>
          LET c == get_conn(WithoutMigrateUrl, last.fault)
          IN  /\ last.desc = c.desc
              /\ last.kind = c.kind
              /\ last.target = c.target
              /\ last.raised = c.raised
    /\ last.op = "prepare_query" =>
          last.sql = prepare_query(WithoutMigrateUrl, last.query)
    /\ last.op = "execute_query" =>
          LET r == execute_query(WithoutMigrateUrl, last.query, last.fault)
          IN  /\ last.desc = r.desc
              /\ last.kind = r.kind
              /\ last.target = r.target
              /\ last.raised = r.raised
              /\ last.sql = r.sql
              /\ last.events = r.events

\* C10: a query was executed on the runtime connection while a migrate
\* descriptor of the other backend kind is configured
RuntimeQueryWithMigrateUrl ==
    /\ last.op = "execute_query"
    /\ last.raised = ""
    /\ last.kind = "sqlite"
    /\ IsPgUrl(env.DATABASE_URL_MIGRATE)

\* C11: USE_POSTGRES is true exactly when the resolved runtime descriptor is
\* not empty and has the scheme postgres or postgresql; a connection get_conn
\* opens is a PostgreSQL connection in that case and a connection to the
\* SQLite file allergen_nutrition.db in every other case.
BackendModeSelection ==
    LET networked == /\ ExpectedRuntimeUrl # EmptyUrl
                     /\ ExpectedRuntimeUrl.scheme \in {"postgres", "postgresql"}
    IN  /\ db.USE_POSTGRES <=> networked
        /\ (last.op = "get_conn" /\ last.raised = "") =>
              IF networked
              THEN last.kind = "postgres"
              ELSE last.kind = "sqlite" /\ last.target = SqliteFile

\* C11: get_conn opened the SQLite file although a descriptor, of another
\* scheme, is configured
SqliteChosenForOtherScheme ==
    /\ last.op = "get_conn"
    /\ last.kind = "sqlite"
    /\ last.target = SqliteFile
    /\ ExpectedRuntimeUrl = NonPg

\* C12: the output of normalize_pg_url has the scheme postgresql, for an
\* input with the legacy alias postgres as for one that has the canonical
\* scheme already, and the user, password, host, port and path of the input.
NormalizedSchemeCanonical ==
    last.op = "normalize_pg_url" =>
        /\ last.target.scheme = "postgresql"
        /\ last.target.user = last.desc.user
        /\ last.target.password = last.desc.password
        /\ last.target.host = last.desc.host
        /\ last.target.port = last.desc.port
        /\ last.target.path = last.desc.path

\* C12: a descriptor with the legacy alias, a host in upper case and a port
\* was normalized
LegacyAliasNormalized ==
    /\ last.op = "normalize_pg_url"
    /\ last.desc.scheme = "postgres"
    /\ last.desc.host = H_LOCALHOST
    /\ last.desc.port = "5432"
    /\ last.target.scheme = "postgresql"

\* The values of the sslmode parameters of a query, in order
SslModes(query) ==
    LET at == {i \in 1..Len(query) : query[i][1] = "sslmode"}
    IN  {query[i][2] : i \in at}

\* C13: for a descriptor without sslmode parameter the output has exactly
\* one, disable when the host name in lower case is localhost, 127.0.0.1 or
\* ::1 and require for every other host name and for none.
TlsModeInferredWhenUnset ==
    (last.op = "normalize_pg_url" /\ SslModes(last.desc.query) = {}) =>
        /\ Cardinality({i \in 1..Len(last.target.query) :
                           last.target.query[i][1] = "sslmode"}) = 1
        /\ SslModes(last.target.query) =
              IF lower(last.desc.host) \in {H_localhost, H_loopback4, H_loopback6}
              THEN {"disable"} ELSE {"require"}

\* C13: a descriptor without sslmode whose host is a loopback name written
\* in upper case got sslmode=disable
LoopbackInferredDisabled ==
    /\ last.op = "normalize_pg_url"
    /\ SslModes(last.desc.query) = {}
    /\ last.desc.host = H_LOCALHOST
    /\ SslModes(last.target.query) = {"disable"}

\* C14: when the query of the input has an sslmode parameter, whatever its
\* value and whatever the host, the output carries exactly that value.
ExplicitTlsModeKept ==
    (last.op = "normalize_pg_url" /\ SslModes(last.desc.query) # {}) =>
        SslModes(last.target.query) = SslModes(last.desc.query)

\* The parameters of a query other than sslmode, as a bag of key-value pairs
OtherParams(query) ==
    LET at == {i \in 1..Len(query) : query[i][1] # "sslmode"}
    IN  [kv \in {query[i] : i \in at} |-> Cardinality({i \in at : query[i] = kv})]

\* C15: every parameter of the input other than sslmode, those with an empty
\* value and those with a repeated key included, is in the output with its
\* key and value, and the output has no other parameter besides sslmode.
OtherParametersPreserved ==
    last.op = "normalize_pg_url" =>
        OtherParams(last.target.query) = OtherParams(last.desc.query)

\* The truthy rule: the variable is set and its value, trimmed and in lower
\* case, is one of 1, true, yes, on
FlagEnabled(var) ==
    /\ var.present
    /\ lower(strip(var.value)) \in {S_1, S_true, S_yes, S_on}

\* C16: each of DB_USE_RUNTIME_ROLE, ENABLE_DB_MIGRATIONS and
\* ENABLE_DB_MONITOR is enabled exactly when the truthy rule holds of it: the
\* runtime-role override is on, ensure_schema passes its guard, and a call of
\* start_db_monitor starts a thread, in exactly that case.
FlagsFollowTruthyRule ==
    /\ db.USE_RUNTIME_ROLE = FlagEnabled(env.DB_USE_RUNTIME_ROLE)
    /\ MigrationsEnabled(env) = FlagEnabled(env.ENABLE_DB_MIGRATIONS)
    /\ starts > 0 => ((threads # <<>>) = FlagEnabled(env.ENABLE_DB_MONITOR))

\* What int() makes of DB_MONITOR_INTERVAL_SECONDS, 60 standing for an absent
\* variable
ConfiguredInterval == ParseInt(getenv(env.DB_MONITOR_INTERVAL_SECONDS, <<"6", "0">>))

\* C17, as claimed: the interval a monitor thread was started with is 60 when
\* DB_MONITOR_INTERVAL_SECONDS is absent or not an integer, the configured
\* integer when it is at least 1, and 1 when the configured integer is below
\* 1; it is at least 1 in every case.
IntervalClampedToMinimum ==
    \A t \in Threads :
        /\ threads[t].interval >= 1
        /\ threads[t].interval =
              IF ~ConfiguredInterval.ok THEN 60
              ELSE IF ConfiguredInterval.value >= 1 THEN ConfiguredInterval.value
              ELSE 1

\* C17, amended: the interval a monitor thread was started with is 60 when
\* DB_MONITOR_INTERVAL_SECONDS is absent, not an integer or an integer below
\* 1, and the configured integer when it is at least 1; it is at least 1 in
\* every case.
IntervalResolution ==
    \A t \in Threads :
        /\ threads[t].interval >= 1
        /\ threads[t].interval =
              IF ~ConfiguredInterval.ok THEN 60
              ELSE IF ConfiguredInterval.value >= 1 THEN ConfiguredInterval.value
              ELSE 60

\* C17: a thread was started with DB_MONITOR_INTERVAL_SECONDS=0 and sleeps
\* 60 seconds between cycles
ZeroIntervalStarted ==
    /\ threads # <<>>
    /\ env.DB_MONITOR_INTERVAL_SECONDS = SetTo(<<"0">>)
    /\ threads[1].interval = 60

\* The number of placeholders ? of a template before position i
PlaceholdersBefore(q, i) == Cardinality({j \in 1..(i - 1) : q[j] = "?"})

\* C18: what prepare_query returns, and what execute_query hands to the
\* cursor, is the template itself when the SQLite backend is active; when
\* the PostgreSQL backend is active it is the template with %s in the place
\* of every ? and every other character kept, in order.
PlaceholdersTranslated ==
    ( \/ last.op = "prepare_query"
      \/ last.op = "execute_query" /\ Contains(last.events, "execute") ) =>
        LET q == last.query
            sql == last.sql
        IN  IF ~db.USE_POSTGRES
            THEN sql = q
            ELSE /\ Len(sql) = Len(q) + PlaceholdersBefore(q, Len(q) + 1)
                 /\ \A i \in 1..Len(q) :
                       LET at == i + PlaceholdersBefore(q, i)
                       IN  IF q[i] = "?"
                           THEN sql[at] = "%" /\ sql[at + 1] = "s"
                           ELSE sql[at] = q[i]

\* C18: a template with two placeholders was translated for PostgreSQL
TwoPlaceholdersTranslated ==
    /\ last.op = "prepare_query"
    /\ db.USE_POSTGRES
    /\ last.query = <<"?", ",", "?">>
    /\ last.sql = <<"%", "s", ",", "%", "s">>

MigrateExitStatus ==
    last.op = "migrate" =>
        /\ last.exit \in {0, 1}
        /\ (env.DATABASE_URL_MIGRATE = EmptyUrl /\ last.admin = EmptyUrl) =>
              /\ last.exit = 1
              /\ ~Contains(last.steps, "connect")
              /\ last.schema_events = <<>>
        /\ ( \/ last.import_raised # ""
             \/ last.check_raised # ""
             \/ last.schema_raised # "" ) => last.exit = 1
        /\ last.exit = 0 =>
              /\ last.steps = <<"import", "connect", "close", "ensure_schema">>
              /\ last.import_raised = ""
              /\ last.check_raised = ""
              /\ last.schema_raised = ""

\* C20: a run whose connection check succeeded exited with 1 because
\* ensure_schema raised
MigrateFailedInEnsureSchema ==
    /\ last.op = "migrate"
    /\ last.check_raised = ""
    /\ last.schema_raised # ""
    /\ Contains(last.steps, "ensure_schema")
    /\ last.exit = 1

\* C23: every connection of a process is of one backend kind: a connection
\* get_migrate_conn opens is a PostgreSQL connection exactly when USE_POSTGRES
\* is true, as a connection of get_conn is, and get_migrate_conn raises
\* nothing but the connection error of a driver.
OneBackendModePerProcess ==
    /\ (last.op = "get_conn" /\ last.raised = "") =>
          (last.kind = "postgres") = db.USE_POSTGRES
    /\ last.op = "get_migrate_conn" =>
          /\ last.raised = "" => (last.kind = "postgres") = db.USE_POSTGRES
          /\ last.raised \in {"", DriverError("postgres"), DriverError("sqlite")}

\* The DDL statements among the calls of an invocation
DdlStatements ==
    {"create_users_pg", "create_users_sqlite", "alter_users_add_token",
     "create_nutrition_pg", "create_nutrition_sqlite"}

\* C24: the PostgreSQL CREATE TABLE statements are executed on PostgreSQL
\* connections only, the SQLite statements on SQLite connections only.
DdlInDialectOfConnection ==
    \A i \in 1..Len(hist) :
        \A j \in 1..Len(hist[i].events) :
            /\ hist[i].events[j] \in {"create_users_pg", "create_nutrition_pg"} =>
                  hist[i].kind = "postgres"
            /\ hist[i].events[j] \in {"create_users_sqlite", "alter_users_add_token",
                                      "create_nutrition_sqlite"} =>
                  hist[i].kind = "sqlite"

\* C25: an invocation of ensure_schema that opened a connection calls commit
\* at most once and only after each of its DDL statements was executed;
\* it calls commit when no exception propagates, and not when a DDL
\* statement or the cursor raised one that does.
CommitOnceAfterAllDdl ==
    \A i \in 1..Len(hist) :
        (hist[i].enabled /\ hist[i].kind # "none") =>
            LET ev == hist[i].events
                commits == {j \in 1..Len(ev) : ev[j] = "commit"}
                stmts == SchemaStatements(db)
            IN  /\ Cardinality(commits) <= 1
                /\ \A j \in commits :
                      /\ \A s \in 1..Len(stmts) : \E k \in 1..(j - 1) : ev[k] = stmts[s]
                      /\ \A k \in (j + 1)..Len(ev) : ev[k] \notin DdlStatements
                /\ hist[i].raised = "" => Cardinality(commits) = 1
                /\ (hist[i].raised # "" /\ hist[i].fault # "commit") => commits = {}

\* C25: the second CREATE TABLE of an invocation raised after the first was
\* executed, and commit was not called
DdlFailedWithoutCommit ==
    /\ hist # <<>>
    /\ hist[1].fault = "create_nutrition_sqlite"
    /\ hist[1].raised # ""
    /\ Contains(hist[1].events, "create_users_sqlite")
    /\ ~Contains(hist[1].events, "commit")

\* C26: every failure of a DDL statement propagates to the caller of
\* ensure_schema, except the failure of ADD COLUMN on a table users that has
\* the column already: a failure of ADD COLUMN for any other reason
\* propagates too.
OnlyDuplicateColumnSwallowed ==
    \A i \in 1..Len(hist) :
        LET failed == /\ hist[i].fault \in DdlStatements
                      /\ Contains(hist[i].events, hist[i].fault)
        IN  failed => hist[i].raised # ""

\* The calls of one operation leave no connection open: it connects at most
\* once, and when the connection was opened close is its last call, made once
Released(opened, events) ==
    /\ Cardinality({j \in 1..Len(events) : events[j] = "connect"}) <= 1
    /\ IF opened
       THEN /\ Head(events) = "connect"
            /\ events[Len(events)] = "close"
            /\ Cardinality({j \in 1..Len(events) : events[j] = "close"}) = 1
       ELSE ~Contains(events, "close")

\* C27: every connection execute_query, ensure_schema or probe_db opens is
\* closed when the operation returns or raises, whichever driver call
\* failed, and each operation opens a connection of its own.
ConnectionsReleased ==
    /\ last.op = "execute_query" => Released(last.kind # "none", last.events)
    /\ last.op = "probe_db" => Released(last.opened, last.events)
    /\ \A i \in 1..Len(hist) :
          IF hist[i].enabled
          THEN Released(hist[i].kind # "none", hist[i].events)
          ELSE hist[i].events = <<>>

\* C27: the SELECT 1 of a probe failed on an open connection, which was
\* closed, after an ensure_schema that failed at commit
ProbeFailedAndClosed ==
    /\ last.op = "probe_db"
    /\ last.fault = "execute"
    /\ last.opened
    /\ last.events = <<"connect", "cursor", "execute", "close">>
    /\ hist # <<>>
    /\ hist[1].fault = "commit"

\* C29: when a run of ops/migrate.py exits with 0, the tables users and
\* nutrition_facts exist in the database its migrate connection went to,
\* whatever the other environment variables are.
MigrateSuccessMeansTables ==
    (last.op = "migrate" /\ last.exit = 0) =>
        /\ stores[StoreOf(last.target)].users.exists
        /\ stores[StoreOf(last.target)].nutrition_facts.exists

\* C30: LAST_DB_STATUS is a single slot written by the monitor loop only and
\* the last write wins: at the step that completes a cycle of a monitor
\* thread, LAST_DB_STATUS names the record that cycle produced (the dict
\* probe_db returned, or the synthetic failure record when the cycle
\* raised), and the slot changes only in a step of a monitor thread.
LastWriteWins ==
    [][ /\ \A t \in Threads :
              (threads[t].pc # "sleep" /\ threads'[t].pc = "sleep") =>
                  /\ LAST_DB_STATUS' # 0
                  /\ heap'[LAST_DB_STATUS'] =
                        IF threads[t].pc = "log" THEN heap[threads[t].status]
                        ELSE SyntheticStatus(clock, threads[t].exc)
        /\ LAST_DB_STATUS' # LAST_DB_STATUS =>
              \E t \in Threads : /\ threads[t].pc \in {"probing", "except"}
                                 /\ threads'[t].pc # threads[t].pc ]_vars

\* C21: in strict mode, when every driver call succeeds, get_or_404_owned
\* ends with 401 when the session has no user, with 404 when no row has the
\* id, with 404 when the row's owner field differs from the session user
\* and the user is not an admin allowed by allow_admin, and returns the
\* row only to its owner or to such an admin, on /api/ paths and on others.
StrictOutcomes ==
    (last.op = "get_or_404_owned" /\ last.strict /\ last.fault = "none") =>
        LET admin == last.allow_admin /\ is_admin(last.strict, last.sess)
            owner == DictGet(DictRow(last.found), last.owner_field)
        IN  /\ last.sess.user_id = NoneId =>
                  last.outcome \in {"response", "abort"} /\ last.code = 401
            /\ (last.sess.user_id # NoneId /\ last.found = <<>>) =>
                  last.outcome \in {"response", "abort"} /\ last.code = 404
            /\ (last.sess.user_id # NoneId /\ last.found # <<>>
                    /\ owner # last.sess.user_id /\ ~admin) =>
                  last.outcome \in {"response", "abort"} /\ last.code = 404
            /\ last.outcome = "resource" =>
                  /\ last.found # <<>>
                  /\ last.resource.columns = last.found
                  /\ owner = last.sess.user_id \/ admin

\* C28: get_or_404_owned closes the connection it opened before it returns
\* or aborts, in permissive and in strict mode, whether the row is found,
\* not found, not owned, or a driver call raised.
AuthzConnectionClosed ==
    last.op = "get_or_404_owned" => Released(last.opened, last.events)

\* The score the keywords of two goals give: 3 for each primary keyword
\* they share and 1 for each related keyword they share
SharedScore(g, h) ==
    3 * Cardinality(SetOf(goal_keywords(g).primary) \cap SetOf(goal_keywords(h).primary))
    + Cardinality(SetOf(goal_keywords(g).related) \cap SetOf(goal_keywords(h).related))

\* C22: every entry compute_related_goals returns is a goal of the registry
\* other than current_slug, with its score against the current goal, which
\* is greater than 0; the entries are in order of score descending, then
\* lower-cased name ascending, then slug ascending; there are at most
\* max(0, limit) of them, and none when current_slug is not in the registry.
RelatedGoalsRanked ==
    last.op = "compute_related_goals" =>
        LET out == last.result
            goals == last.goals_registry
            at == {i \in 1..Len(goals) : goals[i].slug = last.current_slug}
        IN  /\ at = {} => out = <<>>
            /\ Len(out) <= (IF last.limit > 0 THEN last.limit ELSE 0)
            /\ \A i \in 1..Len(out) :
                  /\ out[i].slug # last.current_slug
                  /\ out[i].score > 0
                  /\ \E j \in 1..Len(goals) :
                        /\ goals[j].slug = out[i].slug
                        /\ GoalName(goals[j]) = out[i].name
                        /\ out[i].score =
                              SharedScore(goals[CHOOSE c \in at : \A d \in at : c <= d],
                                          goals[j])
            /\ \A i, j \in 1..Len(out) :
                  i < j =>
                     \/ out[i].score > out[j].score
                     \/ /\ out[i].score = out[j].score
                        /\ StrLess(lower(out[i].name), lower(out[j].name))
                     \/ /\ out[i].score = out[j].score
                        /\ lower(out[i].name) = lower(out[j].name)
                        /\ ~StrLess(out[j].slug, out[i].slug)

\* C22: two goals with the same score were returned, the one whose name
\* comes first having the slug that comes last
RelatedGoalsTieBrokenByName ==
    /\ last.op = "compute_related_goals"
    /\ Len(last.goals_registry) = 3
    /\ Len(last.result) = 2
    /\ last.result[1].score = last.result[2].score
    /\ StrLess(last.result[2].slug, last.result[1].slug)
    /\ StrLess(lower(last.result[1].name), lower(last.result[2].name))

===========================================================================
